---- MODULE Spec2Model ----
(***************************************************************************)
(* Model of the ADC driver in src/analog/adc.rs (stm32g0xx-hal).           *)
(*                                                                         *)
(* The driver is single-threaded and blocking.  Its state is the Adc       *)
(* struct (cached sample_time / align / precision) and the register block  *)
(* rb it owns.  Every statement of a blocking operation that touches a     *)
(* register the peripheral also changes (CR, ISR) is one step, so that the *)
(* peripheral's own transitions interleave with the busy-wait loops; pc is *)
(* the driver's position.  Register fields are kept at their width.        *)
(*                                                                         *)
(* svd2rust's modify() is a read followed by a write of the whole          *)
(* register: in ISR, whose flags are cleared by writing 1, every flag that *)
(* was read as set is written back as 1 and therefore cleared; in CR,      *)
(* whose bits are set by writing 1 and unaffected by writing 0, the write  *)
(* only sets bits.                                                         *)
(***************************************************************************)
EXTENDS Integers, Sequences, FiniteSets, TLC

VARIABLES
    sample_time,  \* Adc.sample_time          (adc.rs:78)
    align,        \* Adc.align                (adc.rs:79)
    precision,    \* Adc.precision            (adc.rs:80)
    cr,           \* rb.cr    : [aden, addis, adstart, adcal, advregen]
    isr,          \* rb.isr   : [adrdy, eos]
    cfgr1,        \* rb.cfgr1 : [res, align]
    cfgr2,        \* rb.cfgr2 : [ckmode]
    smpr,         \* rb.smpr  : [smp1]
    chselr,       \* rb.chselr().chsel, a 19-bit mask
    dr,           \* rb.dr, the 16-bit result
    ccr,          \* rb.ccr   : [presc, tsen, vrefen, vbaten]
    calfact,      \* rb.calfact.calfact, 8 bits
    hwUp,         \* peripheral: the analog front end has stabilised
    pc,           \* driver: position inside the running operation
    pin,          \* driver: <<PIN::channel()>> of the running read, else <<>>
    div,          \* driver: <<code>> of the async divider still to be written
    val,          \* driver: local val of read (adc.rs:222), <<>> before
    ret,          \* driver: <<v>> the value the last read returned, else <<>>
    rdyStale,     \* history: ISR.ADRDY is set and predates the last activation
    eosStale,     \* history: ISR.EOS is set and predates the last start request
    inFlight,     \* history: start requested, its EOS not yet seen by the driver
    lastSet,      \* history: the values last passed to set_precision/align/time
    sampled,      \* history: a read has returned
    calls,        \* history: the last two set_clock_source calls with the
                  \*          clock registers each left behind
    ops           \* history: the last calibration and channel operations,
                  \*          each with its argument, result and registers

regs == <<cr, isr, cfgr1, cfgr2, smpr, chselr, dr, ccr, calfact, hwUp>>
adc  == <<sample_time, align, precision>>
ctl  == <<pc, pin, div, val, ret>>
hist == <<rdyStale, eosStale, inFlight, lastSet, sampled, calls, ops>>
vars == <<regs, adc, ctl, hist>>

-----------------------------------------------------------------------------
(* Bounds of the model                                                     *)

\* sample-time codes 0..NumSampleTimes-1 are passed to set_sample_time
NumSampleTimes == 2

-----------------------------------------------------------------------------
(* Types of adc.rs                                                         *)

Aligns == {"Right", "Left"}

Precisions == {"B_12", "B_10", "B_8", "B_6"}

Precision_as_u8(p) ==
    CASE p = "B_12" -> 0
      [] p = "B_10" -> 1
      [] p = "B_8"  -> 2
      [] p = "B_6"  -> 3

\* SampleTime, by discriminant: T_2 = 0 .. T_160 = 7
SampleTimeCodes == 0..7

SampleTimes == {t \in SampleTimeCodes : t < NumSampleTimes}

PclkDivs == {"PclkD1", "PclkD2", "PclkD4"}

PclkDiv_as_u8(d) ==
    CASE d = "PclkD1" -> 3
      [] d = "PclkD2" -> 1
      [] d = "PclkD4" -> 2

AsyncClockDivs == {"AsyncD1", "AsyncD2", "AsyncD4", "AsyncD8", "AsyncD16",
                   "AsyncD32", "AsyncD64", "AsyncD128", "AsyncD256"}

AsyncClockDiv_as_u8(d) ==
    CASE d = "AsyncD1"   -> 0
      [] d = "AsyncD2"   -> 1
      [] d = "AsyncD4"   -> 2
      [] d = "AsyncD8"   -> 3
      [] d = "AsyncD16"  -> 4
      [] d = "AsyncD32"  -> 5
      [] d = "AsyncD64"  -> 6
      [] d = "AsyncD128" -> 7
      [] d = "AsyncD256" -> 8

ClockSources ==
    [kind : {"Pclk"}, div : PclkDivs] \cup [kind : {"Async"}, div : AsyncClockDivs]

\* Channel IDs of int_adc! and adc_pin!
InternalChannels == {12, 13, 14}

ExternalChannels == (0..11) \cup (15..18)

Channels == InternalChannels \cup ExternalChannels

-----------------------------------------------------------------------------
(* Register fields                                                         *)

\* w.field().bits(v): the value is masked to the field's width
FieldWrite(v, width) == v % (2 ^ width)

\* the set bits of a mask, and back
BitSet(m) == {i \in 0..30 : (m \div (2 ^ i)) % 2 = 1}

RECURSIVE Mask(_)
Mask(s) == IF s = {} THEN 0
           ELSE LET i == CHOOSE x \in s : TRUE IN (2 ^ i) + Mask(s \ {i})

\* a write that leaves the flags as they were read
isr_modify_keep(r, flag) == r

\* rb.isr.modify(|_, w| w.<flag>().set_bit()): the value read is written
\* back with <flag> set; a flag stays set only if it was set and 0 was written
isr_modify(r, flag) ==
    LET w == [r EXCEPT ![flag] = TRUE]
    IN  [f \in DOMAIN r |-> r[f] /\ ~w[f]]

\* rb.cr.modify(|_, w| w.<bit>().set_bit()): the value read is written back
\* with <bit> set; a control bit is set by writing 1 and kept by writing 0
cr_modify(r, bit) ==
    LET w == [r EXCEPT ![bit] = TRUE]
    IN  [f \in DOMAIN r |-> r[f] \/ w[f]]

\* the field widths the writes of read() and set_clock_source() are masked to
ResWidth == 2

SmpWidth == 3

ChselWidth == 19

CkmodeWidth == 2

PrescWidth == 4

DrWidth == 16

\* results the peripheral may leave in DR
RawValues == {0, 63, 255, 256, 4095, 65535}

-----------------------------------------------------------------------------
(* Adc::new: the state after construction                                  *)

Defaults == [precision |-> "B_12", align |-> "Right", sample_time |-> 0]

\* new() sets ADVREGEN and touches nothing else: the peripheral is in its
\* reset state, disabled, with no status flag set
Init ==
    /\ sample_time = Defaults.sample_time
    /\ align = Defaults.align
    /\ precision = Defaults.precision
    /\ cr = [aden |-> FALSE, addis |-> FALSE, adstart |-> FALSE,
             adcal |-> FALSE, advregen |-> TRUE]
    /\ isr = [adrdy |-> FALSE, eos |-> FALSE]
    /\ cfgr1 = [res |-> 0, align |-> FALSE]
    /\ cfgr2 = [ckmode |-> 0]
    /\ smpr = [smp1 |-> 0]
    /\ chselr = 0
    /\ dr = 0
    /\ ccr = [presc |-> 0, tsen |-> FALSE, vrefen |-> FALSE, vbaten |-> FALSE]
    /\ calfact = 0
    /\ hwUp = FALSE
    /\ pc = "idle"
    /\ pin = <<>>
    /\ div = <<>>
    /\ val = <<>>
    /\ ret = <<>>
    /\ rdyStale = FALSE
    /\ eosStale = FALSE
    /\ inFlight = FALSE
    /\ lastSet = Defaults
    /\ sampled = FALSE
    /\ calls = <<>>
    /\ ops = <<>>

-----------------------------------------------------------------------------
(* Configuration mutators                                                  *)

set_sample_time(t_samp) ==
    /\ pc = "idle"
    /\ sample_time' = t_samp
    /\ lastSet' = [lastSet EXCEPT !.sample_time = t_samp]
    /\ ret' = <<>>
    /\ UNCHANGED <<regs, align, precision, pc, pin, div, val,
                   rdyStale, eosStale, inFlight, sampled, calls, ops>>

set_align(a) ==
    /\ pc = "idle"
    /\ align' = a
    /\ lastSet' = [lastSet EXCEPT !.align = a]
    /\ ret' = <<>>
    /\ UNCHANGED <<regs, sample_time, precision, pc, pin, div, val,
                   rdyStale, eosStale, inFlight, sampled, calls, ops>>

set_precision(p) ==
    /\ pc = "idle"
    /\ precision' = p
    /\ lastSet' = [lastSet EXCEPT !.precision = p]
    /\ ret' = <<>>
    /\ UNCHANGED <<regs, sample_time, align, pc, pin, div, val,
                   rdyStale, eosStale, inFlight, sampled, calls, ops>>

-----------------------------------------------------------------------------
(* Adc::power_up, as called by read                                        *)

\* read() is entered and power_up clears the ready flag
read(ch) ==
    /\ pc = "idle"
    /\ pin' = <<ch>>
    /\ ret' = <<>>
    /\ isr' = isr_modify(isr, "adrdy")
    /\ rdyStale' = (rdyStale /\ isr'.adrdy)
    /\ eosStale' = (eosStale /\ isr'.eos)
    /\ pc' = "power_up_aden"
    /\ UNCHANGED <<cr, cfgr1, cfgr2, smpr, chselr, dr, ccr, calfact, hwUp,
                   adc, div, val, inFlight, lastSet, sampled, calls, ops>>

\* the activation request; a ready flag still set now predates it
power_up_aden ==
    /\ pc = "power_up_aden"
    /\ cr' = cr_modify(cr, "aden")
    /\ rdyStale' = isr.adrdy
    /\ pc' = "power_up_wait"
    /\ UNCHANGED <<isr, cfgr1, cfgr2, smpr, chselr, dr, ccr, calfact, hwUp,
                   adc, pin, div, val, ret, eosStale, inFlight, lastSet, sampled, calls, ops>>

\* the loop's condition inverted
adrdy_bit_is_set == isr.adrdy

\* the condition of the loop  while isr.adrdy().bit_is_clear() {}
adrdy_bit_is_clear == ~isr.adrdy

\* the loop is left
power_up_wait ==
    /\ pc = "power_up_wait"
    /\ ~adrdy_bit_is_clear
    /\ pc' = "configure"
    /\ UNCHANGED <<regs, adc, pin, div, val, ret, hist>>

-----------------------------------------------------------------------------
(* OneShot::read: configure, trigger, wait, extract                        *)

\* the resolution written without the alignment
cfgr1_modify_res_only(r, p, a) ==
    [r EXCEPT !.res = FieldWrite(Precision_as_u8(p), ResWidth)]

cfgr1_modify(r, p, a) ==
    [r EXCEPT !.res = FieldWrite(Precision_as_u8(p), ResWidth),
              !.align = (a = "Left")]

smpr_modify(r, t) == [r EXCEPT !.smp1 = FieldWrite(t, SmpWidth)]

\* the channel's bit added to the bits already selected
chselr_modify_or(r, ch) == Mask(BitSet(r) \cup BitSet(FieldWrite(2 ^ ch, ChselWidth)))

\* chselr().modify(|_, w| w.chsel().bits(1 << PIN::channel()))
chselr_modify(r, ch) == FieldWrite(2 ^ ch, ChselWidth)

read_configure ==
    /\ pc = "configure"
    /\ cfgr1' = cfgr1_modify(cfgr1, precision, align)
    /\ smpr' = smpr_modify(smpr, sample_time)
    /\ chselr' = chselr_modify(chselr, pin[1])
    /\ pc' = "clear_eos"
    /\ UNCHANGED <<cr, isr, cfgr2, dr, ccr, calfact, hwUp,
                   adc, pin, div, val, ret, hist>>

read_clear_eos ==
    /\ pc = "clear_eos"
    /\ isr' = isr_modify(isr, "eos")
    /\ rdyStale' = (rdyStale /\ isr'.adrdy)
    /\ eosStale' = (eosStale /\ isr'.eos)
    /\ pc' = "start"
    /\ UNCHANGED <<cr, cfgr1, cfgr2, smpr, chselr, dr, ccr, calfact, hwUp,
                   adc, pin, div, val, ret, inFlight, lastSet, sampled, calls, ops>>

\* the conversion-start request; an EOS flag still set now predates it
read_start ==
    /\ pc = "start"
    /\ cr' = cr_modify(cr, "adstart")
    /\ eosStale' = isr.eos
    /\ inFlight' = TRUE
    /\ pc' = "wait_eos"
    /\ UNCHANGED <<isr, cfgr1, cfgr2, smpr, chselr, dr, ccr, calfact, hwUp,
                   adc, pin, div, val, ret, rdyStale, lastSet, sampled, calls, ops>>

\* the loop's condition inverted
eos_bit_is_set == isr.eos

\* the condition of the loop  while isr.eos().bit_is_clear() {}
eos_bit_is_clear == ~isr.eos

\* read without its wait for the end of the sequence
read_no_wait_eos ==
    /\ pc = "wait_eos"
    /\ inFlight' = (inFlight /\ ~(isr.eos /\ ~eosStale))
    /\ pc' = "extract"
    /\ UNCHANGED <<regs, adc, pin, div, val, ret, rdyStale, eosStale,
                   lastSet, sampled, calls, ops>>

\* the loop is left; the conversion's EOS has been seen if the flag seen set
\* was raised after the start request
read_wait_eos ==
    /\ pc = "wait_eos"
    /\ ~eos_bit_is_clear
    /\ inFlight' = (inFlight /\ ~(isr.eos /\ ~eosStale))
    /\ pc' = "extract"
    /\ UNCHANGED <<regs, adc, pin, div, val, ret, rdyStale, eosStale,
                   lastSet, sampled, calls, ops>>

\* the shift computed in a wider type
shl_wide(x, n) == x * (2 ^ n)

\* res << 8 on a u16: the bits shifted out are dropped
shl_u16(x, n) == (x * (2 ^ n)) % (2 ^ 16)

\* the correction applied to every 6-bit result
extract_any_align(raw, a, p) ==
    LET res == raw % (2 ^ DrWidth)
    IN  IF p = "B_6" THEN shl_u16(res, 8) ELSE res

\* the correction applied when either condition holds
extract_either(raw, a, p) ==
    LET res == raw % (2 ^ DrWidth)
    IN  IF a = "Left" \/ p = "B_6" THEN shl_u16(res, 8) ELSE res

\* let res = dr.read().bits() as u16; let val = if .. { res << 8 } else { res }
extract(raw, a, p) ==
    LET res == raw % (2 ^ DrWidth)
    IN  IF a = "Left" /\ p = "B_6" THEN shl_u16(res, 8) ELSE res

read_extract ==
    /\ pc = "extract"
    /\ val' = <<extract(dr, align, precision)>>
    /\ pc' = "power_down_addis"
    /\ UNCHANGED <<regs, adc, pin, div, ret, hist>>

-----------------------------------------------------------------------------
(* Adc::power_down, as called by read, and the return                      *)

\* power_down switching the internal channels off as well
power_down_addis_channels_off ==
    /\ pc = "power_down_addis"
    /\ cr' = cr_modify(cr, "addis")
    /\ ccr' = [ccr EXCEPT !.tsen = FALSE, !.vrefen = FALSE, !.vbaten = FALSE]
    /\ pc' = "power_down_clear"
    /\ UNCHANGED <<isr, cfgr1, cfgr2, smpr, chselr, dr, calfact, hwUp,
                   adc, pin, div, val, ret, hist>>

power_down_addis ==
    /\ pc = "power_down_addis"
    /\ cr' = cr_modify(cr, "addis")
    /\ pc' = "power_down_clear"
    /\ UNCHANGED <<isr, cfgr1, cfgr2, smpr, chselr, dr, ccr, calfact, hwUp,
                   adc, pin, div, val, ret, hist>>

power_down_clear ==
    /\ pc = "power_down_clear"
    /\ isr' = isr_modify(isr, "adrdy")
    /\ rdyStale' = (rdyStale /\ isr'.adrdy)
    /\ eosStale' = (eosStale /\ isr'.eos)
    /\ pc' = "power_down_wait"
    /\ UNCHANGED <<cr, cfgr1, cfgr2, smpr, chselr, dr, ccr, calfact, hwUp,
                   adc, pin, div, val, ret, inFlight, lastSet, sampled, calls, ops>>

\* the loop's condition inverted
aden_bit_is_clear == ~cr.aden

\* the condition of the loop  while cr.aden().bit_is_set() {}
aden_bit_is_set == cr.aden

power_down_wait ==
    /\ pc = "power_down_wait"
    /\ ~aden_bit_is_set
    /\ pc' = "return"
    /\ UNCHANGED <<regs, adc, pin, div, val, ret, hist>>

\* Ok(val.into()): WORD is built From<u16>, which keeps the value
read_return ==
    /\ pc = "return"
    /\ ret' = val
    /\ val' = <<>>
    /\ pin' = <<>>
    /\ pc' = "idle"
    /\ sampled' = TRUE
    /\ UNCHANGED <<regs, adc, div, rdyStale, eosStale, inFlight, lastSet, calls, ops>>

-----------------------------------------------------------------------------
(* The peripheral                                                          *)

\* after ADEN the front end stabilises and the peripheral raises ADRDY
hw_ready ==
    /\ cr.aden /\ ~cr.addis /\ ~hwUp
    /\ hwUp' = TRUE
    /\ isr' = [isr EXCEPT !.adrdy = TRUE]
    /\ rdyStale' = FALSE
    /\ UNCHANGED <<cr, cfgr1, cfgr2, smpr, chselr, dr, ccr, calfact,
                   adc, ctl, eosStale, inFlight, lastSet, sampled, calls, ops>>

\* the single conversion of the sequence ends: the result is in DR, EOS is
\* raised and ADSTART drops
hw_end_of_sequence ==
    /\ cr.adstart /\ cr.aden /\ hwUp
    /\ \E raw \in RawValues : dr' = raw
    /\ isr' = [isr EXCEPT !.eos = TRUE]
    /\ cr' = [cr EXCEPT !.adstart = FALSE]
    /\ eosStale' = FALSE
    /\ UNCHANGED <<cfgr1, cfgr2, smpr, chselr, ccr, calfact, hwUp,
                   adc, ctl, rdyStale, inFlight, lastSet, sampled, calls, ops>>

\* after ADDIS, with no conversion running, the peripheral switches off and
\* drops ADEN and ADDIS
hw_disable ==
    /\ cr.addis /\ ~cr.adstart
    /\ cr' = [cr EXCEPT !.aden = FALSE, !.addis = FALSE]
    /\ hwUp' = FALSE
    /\ UNCHANGED <<isr, cfgr1, cfgr2, smpr, chselr, dr, ccr, calfact,
                   adc, ctl, hist>>

-----------------------------------------------------------------------------
(* Adc::set_clock_source                                                   *)

\* bitwise or of two field values
BitOr(a, b) == Mask(BitSet(a) \cup BitSet(b))

\* the registers a call leaves behind
Snapshot(c2, cc) ==
    [cr |-> cr, isr |-> isr, cfgr1 |-> cfgr1, cfgr2 |-> c2, smpr |-> smpr,
     chselr |-> chselr, dr |-> dr, ccr |-> cc, calfact |-> calfact]

\* the history keeps the last two calls
Remember(c) == IF Len(calls) < 2 THEN Append(calls, c) ELSE <<calls[2], c>>

\* a Pclk divider written where the field's old bits are kept
pclk_ckmode_or(r, d) ==
    [r EXCEPT !.ckmode = BitOr(r.ckmode, FieldWrite(PclkDiv_as_u8(d), CkmodeWidth))]

\* cfgr2.modify(|_, w| w.ckmode().bits(div as u8))
pclk_ckmode(r, d) ==
    [r EXCEPT !.ckmode = FieldWrite(PclkDiv_as_u8(d), CkmodeWidth)]

\* the Async branch without its write of the mode field
async_ckmode_kept(r) == r

\* cfgr2.modify(|_, w| w.ckmode().bits(0))
async_ckmode(r) == [r EXCEPT !.ckmode = FieldWrite(0, CkmodeWidth)]

\* a prescaler added to the field's old value
async_presc_add(r, code) ==
    [r EXCEPT !.presc = FieldWrite(r.presc + code, PrescWidth)]

\* ccr.modify(|_, w| w.presc().bits(div as u8))
async_presc(r, code) == [r EXCEPT !.presc = FieldWrite(code, PrescWidth)]

\* the Async branch writing the prescaler where the mode should be written
set_clock_source_presc_first(clock_source) ==
    /\ pc = "idle"
    /\ ret' = <<>>
    /\ IF clock_source.kind = "Pclk"
       THEN /\ cfgr2' = pclk_ckmode(cfgr2, clock_source.div)
            /\ calls' = Remember([src |-> clock_source,
                                  after |-> Snapshot(cfgr2', ccr)])
            /\ UNCHANGED <<pc, div, ccr>>
       ELSE /\ ccr' = async_presc(ccr, AsyncClockDiv_as_u8(clock_source.div))
            /\ div' = <<clock_source.div>>
            /\ pc' = "clock_presc"
            /\ UNCHANGED <<calls, cfgr2>>
    /\ UNCHANGED <<cr, isr, cfgr1, smpr, chselr, dr, calfact, hwUp,
                   adc, pin, val, rdyStale, eosStale, inFlight, lastSet, sampled,
                   ops>>

\* the call, up to and including its write of cfgr2: the Pclk branch is
\* complete, the Async branch still has the prescaler to write
set_clock_source(clock_source) ==
    /\ pc = "idle"
    /\ ret' = <<>>
    /\ IF clock_source.kind = "Pclk"
       THEN /\ cfgr2' = pclk_ckmode(cfgr2, clock_source.div)
            /\ calls' = Remember([src |-> clock_source,
                                  after |-> Snapshot(cfgr2', ccr)])
            /\ UNCHANGED <<pc, div>>
       ELSE /\ cfgr2' = async_ckmode(cfgr2)
            /\ div' = <<clock_source.div>>
            /\ pc' = "clock_presc"
            /\ UNCHANGED calls
    /\ UNCHANGED <<cr, isr, cfgr1, smpr, chselr, dr, ccr, calfact, hwUp,
                   adc, pin, val, rdyStale, eosStale, inFlight, lastSet, sampled,
                   ops>>

\* the Async branch's write of ccr, and the return
set_clock_source_presc ==
    /\ pc = "clock_presc"
    /\ ccr' = async_presc(ccr, AsyncClockDiv_as_u8(div[1]))
    /\ calls' = Remember([src |-> [kind |-> "Async", div |-> div[1]],
                          after |-> Snapshot(cfgr2, ccr')])
    /\ div' = <<>>
    /\ pc' = "idle"
    /\ UNCHANGED <<cr, isr, cfgr1, cfgr2, smpr, chselr, dr, calfact, hwUp,
                   adc, pin, val, ret, rdyStale, eosStale, inFlight, lastSet,
                   sampled, ops>>

-----------------------------------------------------------------------------
(* Adc::calibrate, get_calibration, set_calibration                        *)

\* the calfact field of rb.calfact
CalfactWidth == 7

\* CalibrationFactor(pub u8): the factors passed to set_calibration, from
\* both halves of the u8 range
CalibrationFactors == {0, 1, 2, 63, 64, 126, 127, 128, 129, 191, 192, 254, 255}

\* factors the calibration routine may leave in calfact
CalResults == {0, 1, 64, 127}

\* the history keeps the last n operations
Note(o, n) ==
    LET all == Append(ops, o)
    IN  IF Len(all) <= n THEN all ELSE SubSeq(all, Len(all) - n + 1, Len(all))

\* one operation of the history
Op(name, arg, out, cc, cf) ==
    [op |-> name, arg |-> arg, out |-> out, ccr |-> cc, calfact |-> cf]

\* the factor is stored without the field's mask
calfact_write_u8(f) == f

\* calfact.write(|w| w.calfact().bits(calfact.0))
calfact_write(f) == FieldWrite(f, CalfactWidth)

set_calibration(f) ==
    /\ pc = "idle"
    /\ calfact' = calfact_write(f)
    /\ ret' = <<>>
    /\ ops' = Note(Op("set_calibration", <<f>>, <<>>, ccr, calfact'), 2)
    /\ UNCHANGED <<cr, isr, cfgr1, cfgr2, smpr, chselr, dr, ccr, hwUp,
                   adc, pc, pin, div, val,
                   rdyStale, eosStale, inFlight, lastSet, sampled, calls>>

\* CalibrationFactor(calfact.read().calfact().bits())
get_calibration ==
    /\ pc = "idle"
    /\ ret' = <<calfact>>
    /\ ops' = Note(Op("get_calibration", <<>>, ret', ccr, calfact), 2)
    /\ UNCHANGED <<regs, adc, pc, pin, div, val,
                   rdyStale, eosStale, inFlight, lastSet, sampled, calls>>

\* cr.modify(|_, w| w.adcal().set_bit())
calibrate ==
    /\ pc = "idle"
    /\ cr' = cr_modify(cr, "adcal")
    /\ ret' = <<>>
    /\ pc' = "calibrate_wait"
    /\ UNCHANGED <<isr, cfgr1, cfgr2, smpr, chselr, dr, ccr, calfact, hwUp,
                   adc, pin, div, val, hist>>

\* the loop's condition inverted
adcal_bit_is_clear == ~cr.adcal

\* the condition of the loop  while cr.adcal().bit_is_set() {}
adcal_bit_is_set == cr.adcal

calibrate_wait ==
    /\ pc = "calibrate_wait"
    /\ ~adcal_bit_is_set
    /\ pc' = "idle"
    /\ ops' = Note(Op("calibrate", <<>>, <<>>, ccr, calfact), 1)
    /\ UNCHANGED <<regs, adc, pin, div, val, ret,
                   rdyStale, eosStale, inFlight, lastSet, sampled, calls>>

\* the calibration routine ends: the factor is in calfact and ADCAL drops
hw_calibrated ==
    /\ cr.adcal
    /\ \E f \in CalResults : calfact' = f
    /\ cr' = [cr EXCEPT !.adcal = FALSE]
    /\ UNCHANGED <<isr, cfgr1, cfgr2, smpr, chselr, dr, ccr, hwUp,
                   adc, ctl, hist>>

-----------------------------------------------------------------------------
(* int_adc!: enable and disable of the internal channels                   *)

\* the $en field of each internal channel
EnableBit(ch) ==
    CASE ch = 12 -> "tsen"
      [] ch = 13 -> "vrefen"
      [] ch = 14 -> "vbaten"

\* the register written, not modified: every other field takes its reset value
ccr_write_set_bit(r, en) ==
    [[presc |-> 0, tsen |-> FALSE, vrefen |-> FALSE, vbaten |-> FALSE]
        EXCEPT ![en] = TRUE]

\* ccr.modify(|_, w| w.$en().set_bit())
ccr_set_bit(r, en) == [r EXCEPT ![en] = TRUE]

\* disable written with enable's set_bit
ccr_clear_bit_sets(r, en) == [r EXCEPT ![en] = TRUE]

\* ccr.modify(|_, w| w.$en().clear_bit())
ccr_clear_bit(r, en) == [r EXCEPT ![en] = FALSE]

enable(ch) ==
    /\ pc = "idle"
    /\ ccr' = ccr_set_bit(ccr, EnableBit(ch))
    /\ ret' = <<>>
    /\ ops' = Note(Op("enable", <<ch>>, <<>>, ccr', calfact), 4)
    /\ UNCHANGED <<cr, isr, cfgr1, cfgr2, smpr, chselr, dr, calfact, hwUp,
                   adc, pc, pin, div, val,
                   rdyStale, eosStale, inFlight, lastSet, sampled, calls>>

disable(ch) ==
    /\ pc = "idle"
    /\ ccr' = ccr_clear_bit(ccr, EnableBit(ch))
    /\ ret' = <<>>
    /\ ops' = Note(Op("disable", <<ch>>, <<>>, ccr', calfact), 4)
    /\ UNCHANGED <<cr, isr, cfgr1, cfgr2, smpr, chselr, dr, calfact, hwUp,
                   adc, pc, pin, div, val,
                   rdyStale, eosStale, inFlight, lastSet, sampled, calls>>

-----------------------------------------------------------------------------
(* The conversion engine: any sequence of the configuration mutators and   *)
(* read, with the peripheral running beside the driver                     *)

Next ==
    \/ \E t \in SampleTimes : set_sample_time(t)
    \/ \E a \in Aligns : set_align(a)
    \/ \E p \in Precisions : set_precision(p)
    \/ \E ch \in Channels : read(ch)
    \/ power_up_aden
    \/ power_up_wait
    \/ read_configure
    \/ read_clear_eos
    \/ read_start
    \/ read_wait_eos
    \/ read_extract
    \/ power_down_addis
    \/ power_down_clear
    \/ power_down_wait
    \/ read_return
    \/ hw_ready
    \/ hw_end_of_sequence
    \/ hw_disable

Spec == Init /\ [][Next]_vars

-----------------------------------------------------------------------------
(* The clock source selector: any sequence of set_clock_source calls, from *)
(* every value the clock fields and the rest of ccr may hold before        *)

InitClock ==
    /\ sample_time = Defaults.sample_time
    /\ align = Defaults.align
    /\ precision = Defaults.precision
    /\ cr = [aden |-> FALSE, addis |-> FALSE, adstart |-> FALSE,
             adcal |-> FALSE, advregen |-> TRUE]
    /\ isr = [adrdy |-> FALSE, eos |-> FALSE]
    /\ cfgr1 = [res |-> 0, align |-> FALSE]
    /\ cfgr2 \in [ckmode : 0..(2 ^ CkmodeWidth - 1)]
    /\ smpr = [smp1 |-> 0]
    /\ chselr = 0
    /\ dr = 0
    /\ ccr \in [presc : 0..(2 ^ PrescWidth - 1), tsen : BOOLEAN,
                 vrefen : BOOLEAN, vbaten : BOOLEAN]
    /\ calfact = 0
    /\ hwUp = FALSE
    /\ pc = "idle"
    /\ pin = <<>>
    /\ div = <<>>
    /\ val = <<>>
    /\ ret = <<>>
    /\ rdyStale = FALSE
    /\ eosStale = FALSE
    /\ inFlight = FALSE
    /\ lastSet = Defaults
    /\ sampled = FALSE
    /\ calls = <<>>
    /\ ops = <<>>

NextClock ==
    \/ \E clock_source \in ClockSources : set_clock_source(clock_source)
    \/ set_clock_source_presc

SpecClock == InitClock /\ [][NextClock]_vars

-----------------------------------------------------------------------------
(* The calibration factor: any sequence of calibrate, get_calibration and  *)
(* set_calibration, from every factor the field may hold before            *)

InitCalib ==
    /\ sample_time = Defaults.sample_time
    /\ align = Defaults.align
    /\ precision = Defaults.precision
    /\ cr = [aden |-> FALSE, addis |-> FALSE, adstart |-> FALSE,
             adcal |-> FALSE, advregen |-> TRUE]
    /\ isr = [adrdy |-> FALSE, eos |-> FALSE]
    /\ cfgr1 = [res |-> 0, align |-> FALSE]
    /\ cfgr2 = [ckmode |-> 0]
    /\ smpr = [smp1 |-> 0]
    /\ chselr = 0
    /\ dr = 0
    /\ ccr = [presc |-> 0, tsen |-> FALSE, vrefen |-> FALSE, vbaten |-> FALSE]
    /\ calfact \in {f \in CalibrationFactors : f < 2 ^ CalfactWidth}
    /\ hwUp = FALSE
    /\ pc = "idle"
    /\ pin = <<>>
    /\ div = <<>>
    /\ val = <<>>
    /\ ret = <<>>
    /\ rdyStale = FALSE
    /\ eosStale = FALSE
    /\ inFlight = FALSE
    /\ lastSet = Defaults
    /\ sampled = FALSE
    /\ calls = <<>>
    /\ ops = <<>>


NextCalib ==
    \/ \E f \in CalibrationFactors : set_calibration(f)
    \/ get_calibration
    \/ calibrate
    \/ calibrate_wait
    \/ hw_calibrated

SpecCalib == InitCalib /\ [][NextCalib]_vars

-----------------------------------------------------------------------------
(* The internal channels: any sequence of enable and disable, from every   *)
(* value the shared control register may hold before                       *)

InitChan ==
    /\ sample_time = Defaults.sample_time
    /\ align = Defaults.align
    /\ precision = Defaults.precision
    /\ cr = [aden |-> FALSE, addis |-> FALSE, adstart |-> FALSE,
             adcal |-> FALSE, advregen |-> TRUE]
    /\ isr = [adrdy |-> FALSE, eos |-> FALSE]
    /\ cfgr1 = [res |-> 0, align |-> FALSE]
    /\ cfgr2 = [ckmode |-> 0]
    /\ smpr = [smp1 |-> 0]
    /\ chselr = 0
    /\ dr = 0
    /\ ccr \in [presc : 0..(2 ^ PrescWidth - 1), tsen : BOOLEAN,
                 vrefen : BOOLEAN, vbaten : BOOLEAN]
    /\ calfact = 0
    /\ hwUp = FALSE
    /\ pc = "idle"
    /\ pin = <<>>
    /\ div = <<>>
    /\ val = <<>>
    /\ ret = <<>>
    /\ rdyStale = FALSE
    /\ eosStale = FALSE
    /\ inFlight = FALSE
    /\ lastSet = Defaults
    /\ sampled = FALSE
    /\ calls = <<>>
    /\ ops = <<>>

NextChan ==
    \/ \E ch \in InternalChannels : enable(ch)
    \/ \E ch \in InternalChannels : disable(ch)

SpecChan == InitChan /\ [][NextChan]_vars

-----------------------------------------------------------------------------
(* Calibration beside sampling: any sequence of calibrate, get_calibration, *)
(* set_align and read of the internal channels, from construction, with    *)
(* the peripheral running beside the driver                                *)

NextCal ==
    \/ \E a \in Aligns : set_align(a)
    \/ get_calibration
    \/ calibrate
    \/ calibrate_wait
    \/ hw_calibrated
    \/ \E ch \in InternalChannels : read(ch)
    \/ power_up_aden
    \/ power_up_wait
    \/ read_configure
    \/ read_clear_eos
    \/ read_start
    \/ read_wait_eos
    \/ read_extract
    \/ power_down_addis
    \/ power_down_clear
    \/ power_down_wait
    \/ read_return
    \/ hw_ready
    \/ hw_end_of_sequence
    \/ hw_disable

SpecCal == Init /\ [][NextCal]_vars

\* the processor keeps executing the operation it is in, and the peripheral
\* answers every request: it raises ADRDY after ADEN, EOS after ADSTART, and
\* drops ADEN after ADDIS and ADCAL after a calibration
Fairness ==
    /\ WF_vars(calibrate_wait)
    /\ WF_vars(power_up_aden)
    /\ WF_vars(power_up_wait)
    /\ WF_vars(read_configure)
    /\ WF_vars(read_clear_eos)
    /\ WF_vars(read_start)
    /\ WF_vars(read_wait_eos)
    /\ WF_vars(read_extract)
    /\ WF_vars(power_down_addis)
    /\ WF_vars(power_down_clear)
    /\ WF_vars(power_down_wait)
    /\ WF_vars(read_return)
    /\ WF_vars(hw_calibrated)
    /\ WF_vars(hw_ready)
    /\ WF_vars(hw_end_of_sequence)
    /\ WF_vars(hw_disable)

SpecCalFair == Init /\ [][NextCal]_vars /\ Fairness

-----------------------------------------------------------------------------
(* Sampling with the other settings in place: any sequence of reads of the *)
(* internal channels, from states the clock, calibration, channel and      *)
(* configuration operations leave behind                                   *)

InitFrame ==
    /\ sample_time \in SampleTimes
    /\ align \in Aligns
    /\ precision \in {"B_12", "B_6"}
    /\ cr = [aden |-> FALSE, addis |-> FALSE, adstart |-> FALSE,
             adcal |-> FALSE, advregen |-> TRUE]
    /\ isr = [adrdy |-> FALSE, eos |-> FALSE]
    /\ cfgr1 = [res |-> 0, align |-> FALSE]
    /\ cfgr2 \in [ckmode : 0..(2 ^ CkmodeWidth - 1)]
    /\ smpr = [smp1 |-> 0]
    /\ chselr = 0
    /\ dr = 0
    /\ ccr \in [presc : {AsyncClockDiv_as_u8(d) : d \in {"AsyncD1", "AsyncD256"}},
                 tsen : BOOLEAN, vrefen : BOOLEAN, vbaten : BOOLEAN]
    /\ calfact \in {0, 127}
    /\ hwUp = FALSE
    /\ pc = "idle"
    /\ pin = <<>>
    /\ div = <<>>
    /\ val = <<>>
    /\ ret = <<>>
    /\ rdyStale = FALSE
    /\ eosStale = FALSE
    /\ inFlight = FALSE
    /\ lastSet = [precision |-> precision, align |-> align,
                  sample_time |-> sample_time]
    /\ sampled = FALSE
    /\ calls = <<>>
    /\ ops = <<>>

NextFrame ==
    \/ \E ch \in InternalChannels : read(ch)
    \/ power_up_aden
    \/ power_up_wait
    \/ read_configure
    \/ read_clear_eos
    \/ read_start
    \/ read_wait_eos
    \/ read_extract
    \/ power_down_addis
    \/ power_down_clear
    \/ power_down_wait
    \/ read_return
    \/ hw_ready
    \/ hw_end_of_sequence
    \/ hw_disable

SpecFrame == InitFrame /\ [][NextFrame]_vars

-----------------------------------------------------------------------------
(* The claims                                                              *)

\* C1: whenever read (sample) completes, the ADEN bit is clear: at the moment
\* it returns, and for as long as the returned value is the last thing the
\* driver did.
C1_AdenClearOnReturn ==
    (pc = "return" \/ (pc = "idle" /\ ret # <<>>)) => ~cr.aden

\* a read returns after the configuration was changed and an earlier read
\* had returned
C1_Witness ==
    /\ pc = "return"
    /\ sampled
    /\ precision = "B_8"
    /\ ~cr.aden

\* C2: the value read returns is the raw register value shifted left by 8 (in
\* the 16 bits of the result) when alignment is Left and precision is 6 bits,
\* and the raw register value itself for the seven other combinations.
C2_ReturnedValue ==
    (pc = "idle" /\ ret # <<>>) =>
        /\ (align = "Left" /\ precision = "B_6")
              => ret[1] = (dr * 256) % 65536
        /\ \A a \in Aligns, p \in Precisions :
              (<<a, p>> # <<"Left", "B_6">> /\ align = a /\ precision = p)
                  => ret[1] = dr

\* a left-aligned 6-bit result 0x3F is returned as 0x3F00
C2_Witness ==
    /\ pc = "idle"
    /\ align = "Left"
    /\ precision = "B_6"
    /\ dr = 63
    /\ ret = <<16128>>

\* C3: the activation request and the deactivation request are issued only
\* when no conversion is in progress: not between a start request and the
\* driver seeing that conversion's end of sequence, and not while the
\* peripheral still shows ADSTART.
C3_NoPowerCycleInFlight ==
    [][((cr'.aden /\ ~cr.aden) \/ (cr'.addis /\ ~cr.addis))
          => (~inFlight /\ ~cr.adstart)]_vars

\* the deactivation request is about to be issued, after a conversion that
\* completed and was seen to complete
C3_Witness ==
    /\ pc = "power_down_addis"
    /\ val # <<>>
    /\ isr.eos
    /\ ~inFlight

\* C4: in power_up the ready flag is clear when activation is requested, and
\* configuration is reached only with the ready flag set, raised by the
\* peripheral after this call's activation request (not a flag left from an
\* earlier power cycle) and with the front end stabilised.
C4_ReadyIsFresh ==
    /\ pc = "power_up_aden" => ~isr.adrdy
    /\ pc = "configure" => (isr.adrdy /\ ~rdyStale /\ hwUp)

\* configuration is reached in a read that follows an earlier read
C4_Witness ==
    /\ pc = "configure"
    /\ sampled
    /\ isr.adrdy
    /\ ~rdyStale

\* C5: the EOS flag is clear when the conversion start is requested, and the
\* result register is read only with EOS set by the conversion this call
\* started, that conversion being complete.
C5_EosIsFresh ==
    /\ pc = "start" => ~isr.eos
    /\ pc = "extract" => (isr.eos /\ ~eosStale /\ ~cr.adstart /\ ~inFlight)

\* the result of a repeated sample is about to be read
C5_Witness ==
    /\ pc = "extract"
    /\ sampled
    /\ isr.eos
    /\ ~eosStale

\* C6: at every conversion-start request, and while the conversion runs, the
\* channel-selection register has exactly one bit set, bit number ID of the
\* channel passed to this read.
C6_OneHotChannel ==
    (pc = "start" \/ cr.adstart) =>
        /\ Cardinality(BitSet(chselr)) = 1
        /\ BitSet(chselr) = {pin[1]}

\* channel 18 is about to be started after channel 0 was sampled
C6_Witness ==
    /\ pc = "start"
    /\ sampled
    /\ dr # 0
    /\ pin = <<18>>
    /\ chselr = 262144

\* C7: at every conversion-start request the precision, alignment and
\* sample-time fields of the peripheral hold the values last passed to
\* set_precision, set_align and set_sample_time (the construction defaults
\* 12-bit / Right / T_2 if never set).
C7_ConfigReapplied ==
    pc = "start" =>
        /\ cfgr1.res = Precision_as_u8(lastSet.precision)
        /\ cfgr1.align = (lastSet.align = "Left")
        /\ smpr.smp1 = lastSet.sample_time

\* a repeated sample is about to start with all three settings changed
C7_Witness ==
    /\ pc = "start"
    /\ sampled
    /\ lastSet = [precision |-> "B_8", align |-> "Left", sample_time |-> 1]
    /\ cfgr1 = [res |-> 2, align |-> TRUE]
    /\ smpr.smp1 = 1

\* the division factor an async divider is named after
DivisorOf(d) ==
    CASE d = "AsyncD1"   -> 1
      [] d = "AsyncD2"   -> 2
      [] d = "AsyncD4"   -> 4
      [] d = "AsyncD8"   -> 8
      [] d = "AsyncD16"  -> 16
      [] d = "AsyncD32"  -> 32
      [] d = "AsyncD64"  -> 64
      [] d = "AsyncD128" -> 128
      [] d = "AsyncD256" -> 256

\* the most recent completed set_clock_source call
LastCall == calls[Len(calls)]

\* C8: after set_clock_source(Async(d)) the prescaler field holds the code of
\* d (division by 2^code; 2 for AsyncD4) and the mode field holds 0,
\* whatever the clock fields held before.
C8_AsyncReadBack ==
    (pc = "idle" /\ calls # <<>> /\ LastCall.src.kind = "Async") =>
        /\ 2 ^ ccr.presc = DivisorOf(LastCall.src.div)
        /\ LastCall.src.div = "AsyncD4" => ccr.presc = 2
        /\ cfgr2.ckmode = 0

\* Async(AsyncD4) was selected after a Pclk source
C8_Witness ==
    /\ pc = "idle"
    /\ Len(calls) = 2
    /\ calls[1].src.kind = "Pclk"
    /\ calls[1].after.cfgr2.ckmode # 0
    /\ calls[2].src = [kind |-> "Async", div |-> "AsyncD4"]
    /\ ccr.presc = 2
    /\ cfgr2.ckmode = 0

\* C9: after any sequence of set_clock_source calls the mode field holds 0
\* exactly if the most recent call selected Async, and holds the non-zero
\* code of the chosen divider if it selected Pclk.
C9_ExclusiveSource ==
    (pc = "idle" /\ calls # <<>>) =>
        /\ cfgr2.ckmode = 0 <=> LastCall.src.kind = "Async"
        /\ LastCall.src.kind = "Pclk" =>
              /\ cfgr2.ckmode # 0
              /\ cfgr2.ckmode = PclkDiv_as_u8(LastCall.src.div)

\* Pclk was selected after an Async source
C9_Witness ==
    /\ pc = "idle"
    /\ Len(calls) = 2
    /\ calls[1].src.kind = "Async"
    /\ calls[1].after.cfgr2.ckmode = 0
    /\ calls[2].src = [kind |-> "Pclk", div |-> "PclkD2"]
    /\ cfgr2.ckmode = 1

\* C10: two set_clock_source calls in a row with the same source leave the
\* registers as the first call left them.
C10_Idempotent ==
    (Len(calls) = 2 /\ calls[1].src = calls[2].src) =>
        calls[2].after = calls[1].after

\* the same Async source was selected twice in a row
C10_Witness ==
    /\ pc = "idle"
    /\ Len(calls) = 2
    /\ calls[1].src = [kind |-> "Async", div |-> "AsyncD256"]
    /\ calls[2].src = calls[1].src
    /\ ccr.presc = 8

\* the last operation of the history, and the one before it
LastOp == ops[Len(ops)]

PrevOp == ops[Len(ops) - 1]

\* C11 as stated: for every 8-bit factor f, get_calibration right after
\* set_calibration(f) returns f, and set_calibration(get_calibration())
\* leaves the stored factor unchanged.
C11_RoundTripEveryU8 ==
    (pc = "idle" /\ Len(ops) = 2) =>
        /\ (PrevOp.op = "set_calibration" /\ LastOp.op = "get_calibration")
              => LastOp.out = PrevOp.arg
        /\ (PrevOp.op = "get_calibration" /\ LastOp.op = "set_calibration"
              /\ LastOp.arg = PrevOp.out)
              => LastOp.calfact = PrevOp.calfact

\* C11 as amended: get_calibration right after set_calibration(f) returns f
\* for every f below 128, and f reduced to its low 7 bits in general;
\* set_calibration(get_calibration()) leaves the stored factor unchanged.
C11_RoundTripInField ==
    (pc = "idle" /\ Len(ops) = 2) =>
        /\ (PrevOp.op = "set_calibration" /\ LastOp.op = "get_calibration")
              => /\ LastOp.out[1] = PrevOp.arg[1] % 128
                 /\ PrevOp.arg[1] < 128 => LastOp.out = PrevOp.arg
        /\ (PrevOp.op = "get_calibration" /\ LastOp.op = "set_calibration"
              /\ LastOp.arg = PrevOp.out)
              => LastOp.calfact = PrevOp.calfact

\* the factor 127 was read back after being written over another factor
C11_Witness ==
    /\ pc = "idle"
    /\ Len(ops) = 2
    /\ PrevOp.op = "set_calibration"
    /\ PrevOp.arg = <<127>>
    /\ LastOp.op = "get_calibration"
    /\ ret = <<127>>

\* the enable bit of VTemp (12), VRef (13) and VBat (14) in a value of ccr
EnabledIn(cc, ch) ==
    \/ ch = 12 /\ cc.tsen
    \/ ch = 13 /\ cc.vrefen
    \/ ch = 14 /\ cc.vbaten

\* C12: enable() followed immediately by disable() of the same internal
\* channel leaves that channel's enable bit clear, and applying the pair
\* again leaves the register as the first pair left it.
C12_EnableDisable ==
    /\ (Len(ops) >= 2 /\ PrevOp.op = "enable" /\ LastOp.op = "disable"
          /\ PrevOp.arg = LastOp.arg)
          => ~EnabledIn(ccr, LastOp.arg[1])
    /\ (Len(ops) = 4
          /\ ops[1].op = "enable" /\ ops[2].op = "disable"
          /\ ops[3].op = "enable" /\ ops[4].op = "disable"
          /\ ops[1].arg = ops[2].arg /\ ops[2].arg = ops[3].arg
          /\ ops[3].arg = ops[4].arg)
          => ops[4].ccr = ops[2].ccr

\* VRef was enabled and disabled twice in a row while VTemp stayed enabled
C12_Witness ==
    /\ Len(ops) = 4
    /\ ops[1].op = "enable" /\ ops[2].op = "disable"
    /\ ops[3].op = "enable" /\ ops[4].op = "disable"
    /\ \A i \in 1..4 : ops[i].arg = <<13>>
    /\ ops[3].ccr.vrefen
    /\ ~ccr.vrefen
    /\ ccr.tsen

\* C13: enable() and disable() of one internal channel change only that
\* channel's bit of ccr: the other two enable bits and the prescaler field
\* are left as they were, and the peripheral is neither activated nor started.
C13_OnlyOwnBit ==
    [][(ops' # ops /\ ops'[Len(ops')].op \in {"enable", "disable"}) =>
          LET ch == ops'[Len(ops')].arg[1]
          IN  /\ \A other \in InternalChannels \ {ch} :
                    EnabledIn(ccr', other) = EnabledIn(ccr, other)
              /\ EnabledIn(ccr', ch) = (ops'[Len(ops')].op = "enable")
              /\ ccr'.presc = ccr.presc
              /\ cr' = cr
              /\ isr' = isr
              /\ cfgr2' = cfgr2
              /\ pc' = "idle"]_vars

\* VBat was enabled with VTemp enabled and a prescaler programmed; both kept
C13_Witness ==
    /\ ops # <<>>
    /\ LastOp.op = "enable"
    /\ LastOp.arg = <<14>>
    /\ ccr = [presc |-> 8, tsen |-> TRUE, vrefen |-> FALSE, vbaten |-> TRUE]
    /\ ~cr.aden
    /\ ~cr.adstart

\* C14: read never reports an error.  While the flag a loop waits for is
\* not asserted the driver stays in the loop and returns nothing; a running
\* read returns nothing until its return statement, which hands back the
\* value it extracted.
C14_BlocksNeverErrs ==
    [][/\ (pc = "power_up_wait" /\ ~isr.adrdy) => (pc' = pc /\ ret' = <<>>)
       /\ (pc = "wait_eos" /\ ~isr.eos) => (pc' = pc /\ ret' = <<>>)
       /\ (pc = "power_down_wait" /\ cr.aden) => (pc' = pc /\ ret' = <<>>)
       /\ (pin # <<>> /\ pin' # <<>>) => ret' = <<>>
       /\ (pin # <<>> /\ pin' = <<>>) =>
             /\ pc = "return"
             /\ val # <<>>
             /\ ret' = val
             /\ ret'[1] \in 0..65535]_vars

\* a repeated read has returned the value 4095
C14_Witness ==
    /\ pc = "idle"
    /\ sampled
    /\ dr = 4095
    /\ ret = <<4095>>

Left6 == align = "Left" /\ precision = "B_6"

\* C17 as stated: for every raw value and every (alignment, precision) the
\* corrected value, the raw value times 2^8 for Left/6-bit, is what read
\* returns: it fits in 16 bits and no bit of it is lost.
C17_NoBitsLost ==
    (pc = "idle" /\ ret # <<>>) =>
        /\ ret[1] \in 0..65535
        /\ ret[1] = IF Left6 THEN dr * 256 ELSE dr

\* C17 as amended: the returned value always fits in 16 bits; it is the raw
\* value for every combination but Left/6-bit, and for Left/6-bit it is the
\* raw value times 2^8 when the raw value is below 256, and otherwise only
\* the low byte of the raw value, times 2^8.
C17_FitsLowByteKept ==
    (pc = "idle" /\ ret # <<>>) =>
        /\ ret[1] \in 0..65535
        /\ ~Left6 => ret[1] = dr
        /\ (Left6 /\ dr < 256) => ret[1] = dr * 256
        /\ (Left6 /\ dr >= 256) => (ret[1] = (dr % 256) * 256 /\ ret[1] # dr * 256)

\* a left-aligned 6-bit read of the raw value 255 returned 0xFF00
C17_Witness ==
    /\ pc = "idle"
    /\ Left6
    /\ dr = 255
    /\ ret = <<65280>>

\* the number of bits of a precision
BitsOf(p) ==
    CASE p = "B_12" -> 12
      [] p = "B_10" -> 10
      [] p = "B_8"  -> 8
      [] p = "B_6"  -> 6

\* C18: with Right alignment and a raw result of P bits, read returns that
\* result unscaled, a value in 0..2^P-1, for every precision P.
C18_RightAlignedRange ==
    (pc = "idle" /\ ret # <<>> /\ align = "Right" /\ dr < 2 ^ BitsOf(precision))
        => (ret[1] = dr /\ ret[1] \in 0..(2 ^ BitsOf(precision) - 1))

\* an 8-bit right-aligned read returned 255
C18_Witness ==
    /\ pc = "idle"
    /\ align = "Right"
    /\ precision = "B_8"
    /\ sample_time = 1
    /\ dr = 255
    /\ ret = <<255>>

\* C19: in set_clock_source the Async branch first writes the mode field to
\* 0, whatever it held, leaving the prescaler as it was, and then writes the
\* prescaler, leaving the mode at 0; the Pclk branch writes the mode field
\* only and leaves the prescaler unchanged.
C19_ModeThenPrescaler ==
    [][/\ (pc = "idle" /\ pc' = "clock_presc") =>
             /\ cfgr2'.ckmode = 0
             /\ ccr' = ccr
       /\ (pc = "clock_presc" /\ pc' = "idle") =>
             /\ cfgr2' = cfgr2
             /\ cfgr2.ckmode = 0
             /\ 2 ^ ccr'.presc = DivisorOf(div[1])
             /\ ccr' = [ccr EXCEPT !.presc = ccr'.presc]
       /\ (pc = "idle" /\ pc' = "idle" /\ calls' # calls) =>
             /\ ccr' = ccr
             /\ cfgr2'.ckmode # 0]_vars

\* an Async source is being selected after another Async source: the mode,
\* already 0, has been written and the old prescaler is still in place
C19_Witness ==
    /\ pc = "clock_presc"
    /\ Len(calls) >= 1
    /\ LastCall.src = [kind |-> "Async", div |-> "AsyncD2"]
    /\ LastCall.after.cfgr2.ckmode = 0
    /\ div = <<"AsyncD64">>
    /\ cfgr2.ckmode = 0
    /\ ccr.presc = 1

\* C15: if the peripheral answers every request (ADRDY after activation, EOS
\* after start, ADEN dropped after deactivation, ADCAL dropped after a
\* calibration), every read that was entered returns a value and every
\* calibrate returns.
C15_EventuallyReturns ==
    /\ (pc = "power_up_aden") ~> (pc = "idle" /\ ret # <<>>)
    /\ (pc = "calibrate_wait") ~> (pc = "idle" /\ ~cr.adcal)

\* a calibrate has returned after a read had returned
C15_Witness ==
    /\ pc = "idle"
    /\ sampled
    /\ ops # <<>>
    /\ LastOp.op = "calibrate"
    /\ dr # 0
    /\ ~cr.adcal

\* C16: whenever calibrate sets ADCAL the peripheral is switched off and no
\* conversion is in flight, and calibrate returns only once ADCAL has
\* dropped.
C16_CalibrateWhenOff ==
    [][/\ (cr'.adcal /\ ~cr.adcal) =>
             (~cr.aden /\ ~hwUp /\ ~cr.adstart /\ ~inFlight)
       /\ (pc = "calibrate_wait" /\ pc' = "idle") => ~cr.adcal]_vars

\* a calibration is running after a read has returned
C16_Witness ==
    /\ pc = "calibrate_wait"
    /\ cr.adcal
    /\ sampled
    /\ ~cr.aden
    /\ ~cr.adstart

\* C20: from the call of read to its return, every step of the driver and
\* of the peripheral leaves the calibration factor, the clock mode and
\* prescaler, the internal channels' enable bits and the cached sample time,
\* alignment and precision as they were.
C20_SettingsKept ==
    [][(pin # <<>> \/ pin' # <<>>) =>
          /\ calfact' = calfact
          /\ cfgr2'.ckmode = cfgr2.ckmode
          /\ ccr'.presc = ccr.presc
          /\ \A ch \in InternalChannels : EnabledIn(ccr', ch) = EnabledIn(ccr, ch)
          /\ sample_time' = sample_time
          /\ align' = align
          /\ precision' = precision]_vars

\* a read of VRef, enabled beforehand, is about to return after a power
\* cycle with VRef still enabled and the other settings in place
C20_Witness ==
    /\ pc = "return"
    /\ sampled
    /\ pin = <<13>>
    /\ ccr = [presc |-> 8, tsen |-> FALSE, vrefen |-> TRUE, vbaten |-> FALSE]
    /\ cfgr2.ckmode = 3
    /\ calfact = 127
    /\ precision = "B_6"
    /\ align = "Left"
    /\ ~cr.aden

====
